---- MODULE Spec2Model ----
(***************************************************************************)
(* Strategy configurator (src/components/StrategyForm.tsx): the zod schema *)
(* StrategySchema, safeParse over the raw form state, toBase64 and the     *)
(* connector command that the component renders after every edit.          *)
(*                                                                         *)
(* Text is a sequence of UTF-16 code units (a JavaScript string).  Numbers  *)
(* are fixed-point: the integer n stands for n / Scale.  The library calls  *)
(* of the source (zod 3 parsing, Number(), JSON.stringify,                  *)
(* encodeURIComponent, unescape, btoa) are modelled by what they compute.   *)
(***************************************************************************)
EXTENDS Integers, Sequences, FiniteSets, TLC

VARIABLES
  form,       \* the raw edit state held by React.useState
  window,     \* TRUE where typeof window !== 'undefined' (a browser)
  b64,        \* value of the "Base64 config" text area
  pythonCmd,  \* value of the command text area
  event,      \* e.target of the last change event
  edits,      \* number of change events handled
  shown,      \* what every render so far displayed, by raw state (SpecH)
  input,      \* a raw mapping handed to safeParse (SpecV)
  result      \* what safeParse returned for it (SpecV)

vars == <<form, window, b64, pythonCmd, event, edits, shown, input, result>>

----------------------------------------------------------------------------
(* Bounds of the model *)

\* decimal places the fixed-point numbers carry
FracDigits == 1

\* fields of a raw mapping that differ from the base mapping (SpecV)
MaxOverride == 3

\* edits dispatched to one form (Spec, SpecH)
MaxEdits == 2

RECURSIVE Pow10(_)
Pow10(k) == IF k = 0 THEN 1 ELSE 10 * Pow10(k - 1)

Scale == Pow10(FracDigits)

\* the number units + tenths/10, e.g. Dec(1, 5) is 1.5
Dec(units, tenths) == units * Scale + tenths * (Scale \div 10)

Min(S) == CHOOSE x \in S : \A y \in S : x <= y
Max(S) == CHOOSE x \in S : \A y \in S : x >= y

----------------------------------------------------------------------------
(* Text constants (code units) *)

txt_M1       == <<77, 49>>
txt_M5       == <<77, 53>>
txt_M15      == <<77, 49, 53>>
txt_M30      == <<77, 51, 48>>
txt_H1       == <<72, 49>>
txt_H4       == <<72, 52>>
txt_D1       == <<68, 49>>
txt_false    == <<102, 97, 108, 115, 101>>
txt_true     == <<116, 114, 117, 101>>
\* 'EURUSD,GBPUSD'
txt_EURUSD_GBPUSD == <<69, 85, 82, 85, 83, 68, 44, 71, 66, 80, 85, 83, 68>>
txt_Infinity == <<73, 110, 102, 105, 110, 105, 116, 121>>
txt_null     == <<110, 117, 108, 108>>
\* "python mt5_connector/connector.py --config-b64 '"
txt_cmdPrefix == <<112, 121, 116, 104, 111, 110, 32, 109, 116, 53, 95, 99, 111,
                   110, 110, 101, 99, 116, 111, 114, 47, 99, 111, 110, 110, 101,
                   99, 116, 111, 114, 46, 112, 121, 32, 45, 45, 99, 111, 110,
                   102, 105, 103, 45, 98, 54, 52, 32, 39>>
\* "'"
txt_cmdSuffix == <<39>>

\* texts the inputs of the model are drawn from
txt_abc    == <<97, 98, 99>>
txt_NaN    == <<78, 97, 78>>
txt_space  == <<32>>
txt_m15    == <<109, 49, 53>>
txt_M16    == <<77, 49, 54>>
txt_TRUE   == <<84, 82, 85, 69>>
txt_XAUUSD == <<88, 65, 85, 85, 83, 68>>
\* e-acute, euro sign, U+1F600 as a surrogate pair
txt_nonAscii == <<233, 8364, 55357, 56832>>
\* A"\B
txt_quoted == <<65, 34, 92, 66>>

\* the property names of the schema as text, for JSON.stringify
KeyText ==
  [ symbols             |-> <<115, 121, 109, 98, 111, 108, 115>>,
    timeframe           |-> <<116, 105, 109, 101, 102, 114, 97, 109, 101>>,
    riskPerTradePct     |-> <<114, 105, 115, 107, 80, 101, 114, 84, 114, 97, 100,
                              101, 80, 99, 116>>,
    maxOpenPositions    |-> <<109, 97, 120, 79, 112, 101, 110, 80, 111, 115, 105,
                              116, 105, 111, 110, 115>>,
    emaFast             |-> <<101, 109, 97, 70, 97, 115, 116>>,
    emaSlow             |-> <<101, 109, 97, 83, 108, 111, 119>>,
    rsiPeriod           |-> <<114, 115, 105, 80, 101, 114, 105, 111, 100>>,
    atrPeriod           |-> <<97, 116, 114, 80, 101, 114, 105, 111, 100>>,
    atrStopMultiplier   |-> <<97, 116, 114, 83, 116, 111, 112, 77, 117, 108, 116,
                              105, 112, 108, 105, 101, 114>>,
    takeProfitRMultiple |-> <<116, 97, 107, 101, 80, 114, 111, 102, 105, 116, 82,
                              77, 117, 108, 116, 105, 112, 108, 101>>,
    trailingStopATR     |-> <<116, 114, 97, 105, 108, 105, 110, 103, 83, 116, 111,
                              112, 65, 84, 82>>,
    dailyLossLimitPct   |-> <<100, 97, 105, 108, 121, 76, 111, 115, 115, 76, 105,
                              109, 105, 116, 80, 99, 116>>,
    maxDrawdownPct      |-> <<109, 97, 120, 68, 114, 97, 119, 100, 111, 119, 110,
                              80, 99, 116>>,
    liveTrading         |-> <<108, 105, 118, 101, 84, 114, 97, 100, 105, 110, 103>>,
    magicNumber         |-> <<109, 97, 103, 105, 99, 78, 117, 109, 98, 101, 114>> ]

----------------------------------------------------------------------------
(* JavaScript values *)

Str(s) == [t |-> "string", s |-> s]
\* a finite number, n / Scale
Num(n) == [t |-> "number", n |-> n]
NaN    == [t |-> "NaN"]
\* sign is 1 or -1
Inf(sign) == [t |-> "Infinity", sign |-> sign]

\* typeof v
TypeOf(v) == IF v.t = "string" THEN "string" ELSE "number"

IsDigit(c) == c \in 48..57

\* WhiteSpace and LineTerminator code units that Number() strips
IsWhiteSpace(c) == c \in {9, 10, 11, 12, 13, 32, 160, 5760, 8232, 8233, 8239,
                          8287, 12288, 65279} \cup (8192..8202)

\* String.prototype.trim as StringToNumber applies it
Trim(s) ==
  LET keep == {i \in 1..Len(s) : ~IsWhiteSpace(s[i])}
  IN  IF keep = {} THEN <<>> ELSE SubSeq(s, Min(keep), Max(keep))

RECURSIVE DigitsValue(_)
DigitsValue(ds) ==
  IF ds = <<>> THEN 0
  ELSE 10 * DigitsValue(SubSeq(ds, 1, Len(ds) - 1)) + (ds[Len(ds)] - 48)

AllDigits(s) == \A i \in 1..Len(s) : IsDigit(s[i])

\* the first FracDigits digits of a fraction, right-padded with zeros; the
\* inputs of the model carry no more than FracDigits decimal places
FracValue(fs) ==
  DigitsValue([i \in 1..FracDigits |-> IF i <= Len(fs) THEN fs[i] ELSE 48])

\* StrUnsignedDecimalLiteral: Infinity, or digits with an optional fraction
\* (exponents and 0x/0o/0b literals are not among the inputs of the model)
UnsignedLiteral(s) ==
  LET dots == {i \in 1..Len(s) : s[i] = 46}
  IN  IF s = txt_Infinity THEN Inf(1)
      ELSE IF s = <<>> \/ Cardinality(dots) > 1 THEN NaN
      ELSE LET d  == IF dots = {} THEN Len(s) + 1 ELSE Min(dots)
               ip == SubSeq(s, 1, d - 1)
               fp == SubSeq(s, d + 1, Len(s))
           IN  IF AllDigits(ip) /\ AllDigits(fp) /\ Len(ip) + Len(fp) > 0
               THEN Num(DigitsValue(ip) * Scale + FracValue(fp))
               ELSE NaN

Negate(v) ==
  IF v.t = "number" THEN Num(0 - v.n)
  ELSE IF v.t = "Infinity" THEN Inf(0 - v.sign)
  ELSE v

\* StringToNumber: the empty and the all-whitespace string are 0
StringToNumber(s) ==
  LET t == Trim(s)
  IN  IF t = <<>> THEN Num(0)
      ELSE IF t[1] = 45 THEN Negate(UnsignedLiteral(Tail(t)))
      ELSE IF t[1] = 43 THEN UnsignedLiteral(Tail(t))
      ELSE UnsignedLiteral(t)

\* Number(v), the coercion of z.coerce.number()
ToNumber(v) == IF v.t = "string" THEN StringToNumber(v.s) ELSE v

\* a lower bound taken as exclusive
LessOrEqual(v, n) == IF v.t = "Infinity" THEN v.sign < 0 ELSE v.n <= n

\* v < n and v > n for a number value v (not NaN) and a finite bound n
LessThan(v, n)    == IF v.t = "Infinity" THEN v.sign < 0 ELSE v.n < n
GreaterThan(v, n) == IF v.t = "Infinity" THEN v.sign > 0 ELSE v.n > n

\* Number.isInteger(v)
IsInteger(v) == v.t = "number" /\ v.n % Scale = 0

----------------------------------------------------------------------------
(* StrategySchema *)

\* the keys of z.object({...}) in declaration order
Shape == << "symbols", "timeframe", "riskPerTradePct", "maxOpenPositions",
            "emaFast", "emaSlow", "rsiPeriod", "atrPeriod",
            "atrStopMultiplier", "takeProfitRMultiple", "trailingStopATR",
            "dailyLossLimitPct", "maxDrawdownPct", "liveTrading",
            "magicNumber" >>

Fields == {Shape[i] : i \in 1..Len(Shape)}

TimeframeOptions == <<txt_M1, txt_M5, txt_M15, txt_M30, txt_H1, txt_H4, txt_D1>>
LiveTradingOptions == <<txt_false, txt_true>>

ZString(def) == [type |-> "string", default |-> Str(def)]
ZEnum(options, def) == [type |-> "enum", options |-> options, default |-> Str(def)]
\* z.coerce.number()[.int()].min(lo).max(hi).default(def)
ZNumber(int, lo, hi, def) ==
  [type |-> "number", int |-> int, min |-> lo, max |-> hi, default |-> Num(def)]

StrategySchema ==
  [ symbols             |-> ZString(txt_EURUSD_GBPUSD),
    timeframe           |-> ZEnum(TimeframeOptions, txt_M15),
    riskPerTradePct     |-> ZNumber(FALSE, Dec(0, 0), Dec(10, 0), Dec(1, 0)),
    maxOpenPositions    |-> ZNumber(TRUE,  Dec(1, 0), Dec(20, 0), Dec(3, 0)),
    emaFast             |-> ZNumber(TRUE,  Dec(2, 0), Dec(200, 0), Dec(50, 0)),
    emaSlow             |-> ZNumber(TRUE,  Dec(5, 0), Dec(400, 0), Dec(200, 0)),
    rsiPeriod           |-> ZNumber(TRUE,  Dec(2, 0), Dec(50, 0), Dec(14, 0)),
    atrPeriod           |-> ZNumber(TRUE,  Dec(5, 0), Dec(100, 0), Dec(14, 0)),
    atrStopMultiplier   |-> ZNumber(FALSE, Dec(0, 1), Dec(10, 0), Dec(2, 0)),
    takeProfitRMultiple |-> ZNumber(FALSE, Dec(0, 1), Dec(10, 0), Dec(2, 0)),
    trailingStopATR     |-> ZNumber(FALSE, Dec(0, 0), Dec(10, 0), Dec(1, 5)),
    dailyLossLimitPct   |-> ZNumber(FALSE, Dec(0, 0), Dec(50, 0), Dec(5, 0)),
    maxDrawdownPct      |-> ZNumber(FALSE, Dec(0, 0), Dec(90, 0), Dec(20, 0)),
    liveTrading         |-> ZEnum(LiveTradingOptions, txt_false),
    magicNumber         |-> ZNumber(TRUE,  Dec(1, 0), Dec(999999, 0), Dec(424242, 0)) ]

NumberFields == {f \in Fields : StrategySchema[f].type = "number"}

Issue(f, code, detail) == [path |-> f, code |-> code, detail |-> detail]

InSeq(x, s) == \E i \in 1..Len(s) : s[i] = x

\* ZodString._parse: the value must be a string
ParseString(f, v) ==
  IF TypeOf(v) = "string" THEN <<>>
  ELSE <<Issue(f, "invalid_type", "string")>>

\* ZodEnum._parse: a string that is exactly one of the options
ParseEnum(f, sch, v) ==
  IF TypeOf(v) # "string" THEN <<Issue(f, "invalid_type", "string")>>
  ELSE IF ~InSeq(v.s, sch.options) THEN <<Issue(f, "invalid_enum_value", "enum")>>
  ELSE <<>>

\* the checks without .int()
NumberChecksNoInt(f, sch, n) ==
  (IF LessThan(n, sch.min)
     THEN <<Issue(f, "too_small", "minimum")>> ELSE <<>>)
  \o (IF GreaterThan(n, sch.max)
     THEN <<Issue(f, "too_big", "maximum")>> ELSE <<>>)

\* the checks of a ZodNumber in the order the schema chains them: every
\* failed check adds its issue
NumberChecks(f, sch, n) ==
  (IF sch.int /\ ~IsInteger(n)
     THEN <<Issue(f, "invalid_type", "integer")>> ELSE <<>>)
  \o (IF LessThan(n, sch.min)
     THEN <<Issue(f, "too_small", "minimum")>> ELSE <<>>)
  \o (IF GreaterThan(n, sch.max)
     THEN <<Issue(f, "too_big", "maximum")>> ELSE <<>>)

\* ZodNumber._parse with coerce: NaN is a type error and ends the parse
ParseNumber(f, sch, n) ==
  IF n.t = "NaN" THEN <<Issue(f, "invalid_type", "nan")>>
  ELSE NumberChecks(f, sch, n)

\* the value a field's parse yields: the string, or the coerced number
Coerced(f, v) ==
  IF StrategySchema[f].type = "number" THEN ToNumber(v) ELSE v

\* the issues of one declared field for a present value
FieldIssues(f, v) ==
  LET sch == StrategySchema[f]
  IN  CASE sch.type = "string" -> ParseString(f, v)
        [] sch.type = "enum"   -> ParseEnum(f, sch, v)
        [] sch.type = "number" -> ParseNumber(f, sch, Coerced(f, v))

\* a field without .default(): an absent key stays undefined, which is no
\* string and coerces to NaN
NoDefault(f, raw) == IF f \in DOMAIN raw THEN raw[f] ELSE NaN

\* ZodDefault._parse: undefined (an absent key) is replaced by the default
WithDefault(f, raw) ==
  IF f \in DOMAIN raw THEN raw[f] ELSE StrategySchema[f].default

RECURSIVE ObjectIssuesFailFast(_, _)
\* a parse that stops at the first field with an issue
ObjectIssuesFailFast(raw, i) ==
  IF i > Len(Shape) THEN <<>>
  ELSE LET here == FieldIssues(Shape[i], WithDefault(Shape[i], raw))
       IN  IF here # <<>> THEN here ELSE ObjectIssuesFailFast(raw, i + 1)

\* ZodObject._parse: every key of the shape is parsed, in order, and the
\* issues of all of them are collected; keys outside the shape are stripped
RECURSIVE ObjectIssues(_, _)
ObjectIssues(raw, i) ==
  IF i > Len(Shape) THEN <<>>
  ELSE FieldIssues(Shape[i], WithDefault(Shape[i], raw)) \o ObjectIssues(raw, i + 1)

ObjectData(raw) == [f \in Fields |-> Coerced(f, WithDefault(f, raw))]

\* StrategySchema.safeParse(raw)
SafeParse(raw) ==
  LET issues == ObjectIssues(raw, 1)
  IN  IF issues = <<>>
      THEN [success |-> TRUE, data |-> ObjectData(raw)]
      ELSE [success |-> FALSE, issues |-> issues]

----------------------------------------------------------------------------
(* JSON.stringify *)

RECURSIVE DigitsOf(_)
\* the decimal digits of a natural number
DigitsOf(n) == IF n < 10 THEN <<48 + n>> ELSE DigitsOf(n \div 10) \o <<48 + (n % 10)>>

RECURSIVE FracDigitsOf(_, _)
\* the digits of the fraction r / 10^k, trailing zeros dropped
FracDigitsOf(r, k) ==
  IF r = 0 THEN <<>>
  ELSE <<48 + (r \div Pow10(k - 1))>> \o FracDigitsOf(r % Pow10(k - 1), k - 1)

\* Number::toString for the magnitudes of the model; JSON.stringify writes a
\* non-finite number as null
NumberToString(v) ==
  IF v.t # "number" THEN txt_null
  ELSE LET a == IF v.n < 0 THEN 0 - v.n ELSE v.n
           r == a % Scale
       IN  (IF v.n < 0 THEN <<45>> ELSE <<>>)
           \o DigitsOf(a \div Scale)
           \o (IF r = 0 THEN <<>> ELSE <<46>> \o FracDigitsOf(r, FracDigits))

HexLower == <<48, 49, 50, 51, 52, 53, 54, 55, 56, 57, 97, 98, 99, 100, 101, 102>>
HexUpper == <<48, 49, 50, 51, 52, 53, 54, 55, 56, 57, 65, 66, 67, 68, 69, 70>>

IsHighSurrogate(c) == c \in 55296..56319
IsLowSurrogate(c)  == c \in 56320..57343

\* s[i] and s[i+1] form a surrogate pair
PairAt(s, i) == i >= 1 /\ i < Len(s) /\ IsHighSurrogate(s[i]) /\ IsLowSurrogate(s[i + 1])

\* \uXXXX
UnicodeEscape(c) ==
  <<92, 117, HexLower[((c \div 4096) % 16) + 1], HexLower[((c \div 256) % 16) + 1],
    HexLower[((c \div 16) % 16) + 1], HexLower[(c % 16) + 1]>>

\* QuoteJSONString, the code unit at i
QuoteAt(s, i) ==
  LET c == s[i]
  IN  CASE c = 34 -> <<92, 34>>
        [] c = 92 -> <<92, 92>>
        [] c = 8  -> <<92, 98>>
        [] c = 9  -> <<92, 116>>
        [] c = 10 -> <<92, 110>>
        [] c = 12 -> <<92, 102>>
        [] c = 13 -> <<92, 114>>
        [] c < 32 /\ c \notin {8, 9, 10, 12, 13} -> UnicodeEscape(c)
        [] (IsHighSurrogate(c) /\ ~PairAt(s, i))
             \/ (IsLowSurrogate(c) /\ ~PairAt(s, i - 1)) -> UnicodeEscape(c)
        [] OTHER -> <<c>>

RECURSIVE QuoteRange(_, _, _)
QuoteRange(s, lo, hi) ==
  IF lo > hi THEN <<>>
  ELSE IF lo = hi THEN QuoteAt(s, lo)
  ELSE LET mid == (lo + hi) \div 2
       IN  QuoteRange(s, lo, mid) \o QuoteRange(s, mid + 1, hi)

Quote(s) == <<34>> \o QuoteRange(s, 1, Len(s)) \o <<34>>

\* SerializeJSONProperty for the values a configuration holds
JSONValue(v) == IF v.t = "string" THEN Quote(v.s) ELSE NumberToString(v)

RECURSIVE JSONMembers(_, _)
\* the members of the object in property order, comma-separated
JSONMembers(data, i) ==
  IF i > Len(Shape) THEN <<>>
  ELSE (IF i > 1 THEN <<44>> ELSE <<>>)
       \o Quote(KeyText[Shape[i]]) \o <<58>> \o JSONValue(data[Shape[i]])
       \o JSONMembers(data, i + 1)

\* JSON.stringify(data) of a parsed configuration: safeParse builds its output
\* object key by key in shape order
JSONStringify(data) == <<123>> \o JSONMembers(data, 1) \o <<125>>

----------------------------------------------------------------------------
(* encodeURIComponent, unescape, btoa *)

\* A-Z a-z 0-9 - _ . ! ~ * ' ( )
IsUnreserved(c) ==
  \/ c \in 65..90 \/ c \in 97..122 \/ c \in 48..57
  \/ c \in {45, 95, 46, 33, 126, 42, 39, 40, 41}

\* the UTF-8 octets of a code point
UTF8(cp) ==
  IF cp < 128 THEN <<cp>>
  ELSE IF cp < 2048 THEN <<192 + (cp \div 64), 128 + (cp % 64)>>
  ELSE IF cp < 65536
    THEN <<224 + (cp \div 4096), 128 + ((cp \div 64) % 64), 128 + (cp % 64)>>
  ELSE <<240 + (cp \div 262144), 128 + ((cp \div 4096) % 64),
         128 + ((cp \div 64) % 64), 128 + (cp % 64)>>

\* %XX for every octet
PercentEncode(octets) ==
  [k \in 1..3 * Len(octets) |->
     LET o == octets[((k - 1) \div 3) + 1]
     IN  CASE (k - 1) % 3 = 0 -> 37
           [] (k - 1) % 3 = 1 -> HexUpper[(o \div 16) + 1]
           [] OTHER           -> HexUpper[(o % 16) + 1]]

\* Encode, the code unit at i; the text it is given is the output of
\* JSON.stringify, which holds no lone surrogate (those are \u-escaped)
EncodeAt(s, i) ==
  LET c == s[i]
  IN  IF IsUnreserved(c) THEN <<c>>
      ELSE IF PairAt(s, i)
        THEN PercentEncode(UTF8((c - 55296) * 1024 + (s[i + 1] - 56320) + 65536))
      ELSE IF PairAt(s, i - 1) THEN <<>>
      ELSE PercentEncode(UTF8(c))

RECURSIVE EncodeRange(_, _, _)
EncodeRange(s, lo, hi) ==
  IF lo > hi THEN <<>>
  ELSE IF lo = hi THEN EncodeAt(s, lo)
  ELSE LET mid == (lo + hi) \div 2
       IN  EncodeRange(s, lo, mid) \o EncodeRange(s, mid + 1, hi)

EncodeURIComponent(s) == EncodeRange(s, 1, Len(s))

IsHex(c) == c \in 48..57 \/ c \in 65..70 \/ c \in 97..102
HexVal(c) == IF c <= 57 THEN c - 48 ELSE IF c <= 70 THEN c - 55 ELSE c - 87

\* s holds %XX at i
Escape2At(s, i) ==
  i >= 1 /\ i + 2 <= Len(s) /\ s[i] = 37 /\ IsHex(s[i + 1]) /\ IsHex(s[i + 2])

\* s holds %uXXXX at i
Escape4At(s, i) ==
  /\ i >= 1 /\ i + 5 <= Len(s) /\ s[i] = 37 /\ s[i + 1] = 117
  /\ \A k \in 2..5 : IsHex(s[i + k])

\* unescape, the code unit at i: an escape starts at a '%', which no escape
\* holds past its first place, so the places an escape covers are known from
\* the text around them
UnescapeAt(s, i) ==
  IF Escape4At(s, i)
    THEN <<4096 * HexVal(s[i + 2]) + 256 * HexVal(s[i + 3])
           + 16 * HexVal(s[i + 4]) + HexVal(s[i + 5])>>
  ELSE IF Escape2At(s, i) THEN <<16 * HexVal(s[i + 1]) + HexVal(s[i + 2])>>
  ELSE IF \/ \E k \in 1..5 : Escape4At(s, i - k)
          \/ \E k \in 1..2 : Escape2At(s, i - k) /\ ~Escape4At(s, i - k)
    THEN <<>>
  ELSE <<s[i]>>

RECURSIVE UnescapeRange(_, _, _)
UnescapeRange(s, lo, hi) ==
  IF lo > hi THEN <<>>
  ELSE IF lo = hi THEN UnescapeAt(s, lo)
  ELSE LET mid == (lo + hi) \div 2
       IN  UnescapeRange(s, lo, mid) \o UnescapeRange(s, mid + 1, hi)

Unescape(s) == UnescapeRange(s, 1, Len(s))

\* A-Z a-z 0-9 + /
Base64Alphabet ==
  <<65, 66, 67, 68, 69, 70, 71, 72, 73, 74, 75, 76, 77, 78, 79, 80, 81, 82, 83,
    84, 85, 86, 87, 88, 89, 90, 97, 98, 99, 100, 101, 102, 103, 104, 105, 106,
    107, 108, 109, 110, 111, 112, 113, 114, 115, 116, 117, 118, 119, 120, 121,
    122, 48, 49, 50, 51, 52, 53, 54, 55, 56, 57, 43, 47>>

\* btoa of a binary string (every code unit at most 255, as unescape of
\* percent-encoded octets gives): 3 octets to 4 characters, '=' padding
Btoa(bin) ==
  LET n == Len(bin)
      At(k) == IF k <= n THEN bin[k] ELSE 0
  IN  [j \in 1..4 * ((n + 2) \div 3) |->
         LET g  == 3 * ((j - 1) \div 4)
             b0 == At(g + 1)
             b1 == At(g + 2)
             b2 == At(g + 3)
         IN  CASE (j - 1) % 4 = 0 -> Base64Alphabet[(b0 \div 4) + 1]
               [] (j - 1) % 4 = 1 -> Base64Alphabet[((b0 % 4) * 16) + (b1 \div 16) + 1]
               [] (j - 1) % 4 = 2 ->
                    IF g + 2 > n THEN 61
                    ELSE Base64Alphabet[((b1 % 16) * 4) + (b2 \div 64) + 1]
               [] OTHER ->
                    IF g + 3 > n THEN 61 ELSE Base64Alphabet[(b2 % 64) + 1]]

\* toBase64(json), with win standing for typeof window !== 'undefined'
toBase64(win, json) ==
  IF ~win THEN <<>>
  ELSE Btoa(Unescape(EncodeURIComponent(JSONStringify(json))))

----------------------------------------------------------------------------
(* StrategyForm *)

\* the argument of React.useState: numbers, not text
InitialForm ==
  [ symbols             |-> Str(txt_EURUSD_GBPUSD),
    timeframe           |-> Str(txt_M15),
    riskPerTradePct     |-> Num(Dec(1, 0)),
    maxOpenPositions    |-> Num(Dec(3, 0)),
    emaFast             |-> Num(Dec(50, 0)),
    emaSlow             |-> Num(Dec(200, 0)),
    rsiPeriod           |-> Num(Dec(14, 0)),
    atrPeriod           |-> Num(Dec(14, 0)),
    atrStopMultiplier   |-> Num(Dec(2, 0)),
    takeProfitRMultiple |-> Num(Dec(2, 0)),
    trailingStopATR     |-> Num(Dec(1, 5)),
    dailyLossLimitPct   |-> Num(Dec(5, 0)),
    maxDrawdownPct      |-> Num(Dec(20, 0)),
    liveTrading         |-> Str(txt_false),
    magicNumber         |-> Num(Dec(424242, 0)) ]

\* an updater that stores what the schema would coerce the text to
MergeCoerced(prev, name, value) ==
  [k \in DOMAIN prev \cup {name} |->
     IF k = name THEN Coerced(name, Str(value)) ELSE prev[k]]

\* the setForm updater of handleChange: { ...prev, [name]: value }
Merge(prev, name, value) ==
  [k \in DOMAIN prev \cup {name} |-> IF k = name THEN Str(value) ELSE prev[k]]

\* const b64 = parsed.success ? toBase64(parsed.data) : ''
RenderB64(win, parsed) ==
  IF parsed.success THEN toBase64(win, parsed.data) ELSE <<>>

\* a render that assembles the command whatever the parse said
RenderCmdUnguarded(parsed, payload) == txt_cmdPrefix \o payload \o txt_cmdSuffix

\* const pythonCmd = parsed.success ? `python ... --config-b64 '${b64}'` : ''
RenderCmd(parsed, payload) ==
  IF parsed.success THEN txt_cmdPrefix \o payload \o txt_cmdSuffix ELSE <<>>

----------------------------------------------------------------------------
(* The component as a state machine: Spec *)

NoEvent == [name |-> "", value |-> <<>>]
NoInput == <<>>
Pending == [pending |-> TRUE]

\* the text of a bound of a number field, moved by d
BoundText(f, which, d) ==
  NumberToString(Num((IF which = "min" THEN StrategySchema[f].min
                                       ELSE StrategySchema[f].max) + d))

\* the values a change event may carry for the field named f
EditValues(f) ==
  CASE f = "symbols"     -> {txt_XAUUSD, txt_nonAscii, txt_quoted}
    [] f = "timeframe"   -> {txt_H4, txt_M16}
    [] f = "liveTrading" -> {txt_true, txt_TRUE}
    [] OTHER -> {<<>>, BoundText(f, "max", 0)}

\* the first render: on the server (no window) or in a browser
Mount ==
  /\ window \in BOOLEAN
  /\ form = InitialForm
  /\ b64 = RenderB64(window, SafeParse(form))
  /\ pythonCmd = RenderCmd(SafeParse(form), b64)
  /\ event = NoEvent
  /\ edits = 0
  /\ input = NoInput
  /\ result = Pending

Init == Mount /\ shown = <<>>

\* the markup rendered without a window is taken over by the browser, which
\* renders the component again from its initial state
Hydrate ==
  /\ ~window
  /\ window' = TRUE
  /\ form' = InitialForm
  /\ b64' = RenderB64(window', SafeParse(form'))
  /\ pythonCmd' = RenderCmd(SafeParse(form'), b64')
  /\ UNCHANGED <<event, edits, input, result>>

\* handleChange(e) and the render that setForm schedules
HandleChange(name, value) ==
  /\ window
  /\ edits < MaxEdits
  /\ event' = [name |-> name, value |-> value]
  /\ edits' = edits + 1
  /\ form' = Merge(form, name, value)
  /\ UNCHANGED <<window, input, result>>
  /\ b64' = RenderB64(window', SafeParse(form'))
  /\ pythonCmd' = RenderCmd(SafeParse(form'), b64')

Next ==
  \/ Hydrate /\ UNCHANGED shown
  \/ \E name \in Fields : \E value \in EditValues(name) :
       HandleChange(name, value) /\ UNCHANGED shown

Spec == Init /\ [][Next]_vars

----------------------------------------------------------------------------
(* The component with the record of its renders: SpecH *)

Display(payload, cmd) == [b64 |-> payload, pythonCmd |-> cmd]

\* the record keeps, for every raw state rendered so far, what its first
\* render displayed
Recorded(rec, frm, payload, cmd) ==
  IF frm \in DOMAIN rec THEN rec ELSE rec @@ (frm :> Display(payload, cmd))

InitH == Mount /\ shown = (form :> Display(b64, pythonCmd))

HydrateH == Hydrate /\ shown' = Recorded(shown, form', b64', pythonCmd')

HandleChangeH(name, value) ==
  HandleChange(name, value) /\ shown' = Recorded(shown, form', b64', pythonCmd')

NextH ==
  \/ HydrateH
  \/ \E name \in Fields : \E value \in EditValues(name) : HandleChangeH(name, value)

SpecH == InitH /\ [][NextH]_vars

----------------------------------------------------------------------------
(* safeParse over raw mappings: SpecV *)

EmptyRaw == [k \in {} |-> NaN]

\* a key the schema does not declare
UnknownKey == "comment"

Bases == {EmptyRaw, InitialForm, InitialForm @@ (UnknownKey :> Str(txt_abc))}

\* the values tried for f when it is the only field that differs from the base
Candidates(f) ==
  CASE f = "symbols" ->
         {Str(txt_XAUUSD), Str(<<>>), Str(txt_nonAscii), Str(txt_quoted), Num(Dec(5, 0))}
    [] f = "timeframe" ->
         {Str(TimeframeOptions[i]) : i \in 1..Len(TimeframeOptions)}
           \cup {Str(txt_M16), Str(txt_m15), Str(<<>>), Num(Dec(15, 0))}
    [] f = "liveTrading" ->
         {Str(txt_true), Str(txt_false), Str(txt_TRUE), Str(<<>>), Num(Dec(1, 0))}
    [] OTHER ->
         {Str(BoundText(f, w, d)) :
            w \in {"min", "max"}, d \in {0 - Scale, 0, Scale, 0 - (Scale \div 2)}}
           \cup {Str(txt_abc), Str(<<>>), Str(txt_space), Str(txt_NaN),
                 Str(txt_Infinity), Str(<<45>> \o txt_Infinity), NaN, Inf(1),
                 Num(StrategySchema[f].min), Num(StrategySchema[f].max + Scale),
                 Str(<<32>> \o BoundText(f, "max", 0) \o <<32>>)}

\* the values tried for f when several fields differ from the base
FewCandidates(f) ==
  CASE f = "symbols"     -> <<Str(txt_XAUUSD), Num(Dec(5, 0)), Str(txt_nonAscii)>>
    [] f = "timeframe"   -> <<Str(txt_H4), Str(txt_M16), Str(txt_m15)>>
    [] f = "liveTrading" -> <<Str(txt_true), Str(txt_TRUE), Str(<<>>)>>
    [] OTHER -> <<Str(BoundText(f, "max", 0)), Str(txt_abc),
                  Str(BoundText(f, "min", 0 - (Scale \div 2)))>>

\* base with the keys of m replaced
Override(base, m) ==
  [k \in DOMAIN base \cup DOMAIN m |-> IF k \in DOMAIN m THEN m[k] ELSE base[k]]

\* the raw mappings handed to safeParse: every base, every base with one
\* field replaced by one of its candidates, and the initial form with up to
\* MaxOverride fields replaced
InitV ==
  /\ \/ input \in Bases
     \/ \E base \in Bases : \E f \in Fields : \E v \in Candidates(f) :
          input = Override(base, f :> v)
     \/ \E D \in {S \in SUBSET Fields : Cardinality(S) \in 2..MaxOverride} :
          \E pick \in [D -> 1..3] :
            input = [k \in Fields |->
                       IF k \in D THEN FewCandidates(k)[pick[k]] ELSE InitialForm[k]]
  /\ result = Pending
  /\ form = InitialForm
  /\ window = TRUE
  /\ b64 = <<>>
  /\ pythonCmd = <<>>
  /\ event = NoEvent
  /\ edits = 0
  /\ shown = <<>>

\* const parsed = StrategySchema.safeParse(input)
Validate ==
  /\ result = Pending
  /\ result' = SafeParse(input)
  /\ UNCHANGED <<form, window, b64, pythonCmd, event, edits, shown, input>>

NextV == Validate

SpecV == InitV /\ [][NextV]_vars

----------------------------------------------------------------------------
(* What a reader of the payload does: base-64 decoding, UTF-8 decoding and  *)
(* JSON parsing.  These state the claims; the component does not run them.  *)

\* the 6-bit value of a base-64 character
SextetOf(c) ==
  CASE c \in 65..90  -> c - 65
    [] c \in 97..122 -> c - 71
    [] c \in 48..57  -> c + 4
    [] c = 43        -> 62
    [] c = 47        -> 63
    [] OTHER         -> 0

IsBase64Char(c) == c \in 65..90 \/ c \in 97..122 \/ c \in 48..57 \/ c \in {43, 47, 61}

\* the octets a base-64 text stands for (no octets for a malformed text)
Base64Decode(s) ==
  LET n   == Len(s)
      pad == Cardinality({i \in 1..n : s[i] = 61})
  IN  IF n % 4 # 0 \/ (\E i \in 1..n : ~IsBase64Char(s[i])) \/ pad > 2 THEN <<>>
      ELSE [k \in 1..(3 * (n \div 4)) - pad |->
              LET g  == 4 * ((k - 1) \div 3)
                  v0 == SextetOf(s[g + 1])
                  v1 == SextetOf(s[g + 2])
                  v2 == SextetOf(s[g + 3])
                  v3 == SextetOf(s[g + 4])
              IN  CASE (k - 1) % 3 = 0 -> (v0 * 4) + (v1 \div 16)
                    [] (k - 1) % 3 = 1 -> ((v1 % 16) * 16) + (v2 \div 4)
                    [] OTHER           -> ((v2 % 4) * 64) + v3]

\* the k-th continuation octet after the lead octet at i, as 6 bits
Cont(o, i, k) == IF i + k <= Len(o) THEN o[i + k] % 64 ELSE 0

\* the UTF-16 code units of a code point
UTF16(cp) ==
  IF cp < 65536 THEN <<cp>>
  ELSE <<55296 + ((cp - 65536) \div 1024), 56320 + ((cp - 65536) % 1024)>>

\* UTF-8 decoding, the octet at i: a lead octet yields its code point
UTF8DecodeAt(o, i) ==
  LET b == o[i]
  IN  IF b < 128 THEN <<b>>
      ELSE IF b < 192 THEN <<>>
      ELSE IF b < 224 THEN UTF16(((b % 32) * 64) + Cont(o, i, 1))
      ELSE IF b < 240
        THEN UTF16(((b % 16) * 4096) + (Cont(o, i, 1) * 64) + Cont(o, i, 2))
      ELSE UTF16(((b % 8) * 262144) + (Cont(o, i, 1) * 4096)
                 + (Cont(o, i, 2) * 64) + Cont(o, i, 3))

RECURSIVE UTF8DecodeRange(_, _, _)
UTF8DecodeRange(o, lo, hi) ==
  IF lo > hi THEN <<>>
  ELSE IF lo = hi THEN UTF8DecodeAt(o, lo)
  ELSE LET mid == (lo + hi) \div 2
       IN  UTF8DecodeRange(o, lo, mid) \o UTF8DecodeRange(o, mid + 1, hi)

UTF8Decode(o) == UTF8DecodeRange(o, 1, Len(o))

RECURSIVE BackslashesBefore(_, _)
\* the length of the run of backslashes that ends just before position q
BackslashesBefore(t, q) ==
  IF q > 1 /\ t[q - 1] = 92 THEN 1 + BackslashesBefore(t, q - 1) ELSE 0

\* the position of the quote that closes the JSON string opened at p (0: none)
ClosingQuote(t, p) ==
  LET qs == {q \in (p + 1)..Len(t) :
               t[q] = 34 /\ BackslashesBefore(t, q) % 2 = 0}
  IN  IF qs = {} THEN 0 ELSE Min(qs)

RECURSIVE Unquote(_, _)
\* the text between the quotes of a JSON string, escapes resolved, from i on
Unquote(body, i) ==
  IF i > Len(body) THEN <<>>
  ELSE IF body[i] # 92 \/ i = Len(body) THEN <<body[i]>> \o Unquote(body, i + 1)
  ELSE LET e == body[i + 1]
       IN  IF e = 117 /\ i + 5 <= Len(body)
           THEN <<(4096 * HexVal(body[i + 2])) + (256 * HexVal(body[i + 3]))
                  + (16 * HexVal(body[i + 4])) + HexVal(body[i + 5])>>
                \o Unquote(body, i + 6)
           ELSE <<CASE e = 98  -> 8
                    [] e = 116 -> 9
                    [] e = 110 -> 10
                    [] e = 102 -> 12
                    [] e = 114 -> 13
                    [] OTHER   -> e>> \o Unquote(body, i + 2)

\* a JSON number text as a value: -?digits(.digits)?
JSONNumber(s) ==
  LET neg  == s # <<>> /\ s[1] = 45
      u    == IF neg THEN Tail(s) ELSE s
      dots == {i \in 1..Len(u) : u[i] = 46}
      d    == IF dots = {} THEN Len(u) + 1 ELSE Min(dots)
      ip   == SubSeq(u, 1, d - 1)
      fp   == SubSeq(u, d + 1, Len(u))
  IN  IF /\ Cardinality(dots) <= 1 /\ ip # <<>> /\ AllDigits(ip) /\ AllDigits(fp)
         /\ (dots = {} \/ fp # <<>>) /\ Len(fp) <= FracDigits
      THEN Num((IF neg THEN 0 - 1 ELSE 1) * ((DigitsValue(ip) * Scale) + FracValue(fp)))
      ELSE NaN

RECURSIVE JSONParseMembers(_, _)
\* the members "key":value of a flat JSON object from position p on, as the set
\* of <<key, value>>; a text that is no such object yields the empty set
JSONParseMembers(t, p) ==
  IF p > Len(t) \/ t[p] # 34 THEN {}
  ELSE
    LET q == ClosingQuote(t, p)
    IN  IF q = 0 \/ q + 2 > Len(t) \/ t[q + 1] # 58 THEN {}
        ELSE
          LET key == Unquote(SubSeq(t, p + 1, q - 1), 1)
              v   == q + 2
              cq  == IF t[v] = 34 THEN ClosingQuote(t, v) ELSE 0
              es  == {e \in v..Len(t) : t[e] \in {44, 125}}
              \* the place after the value: a comma or the closing brace
              e   == IF t[v] = 34 THEN cq + 1 ELSE IF es = {} THEN 0 ELSE Min(es)
              val == IF t[v] = 34 THEN Str(Unquote(SubSeq(t, v + 1, cq - 1), 1))
                     ELSE JSONNumber(SubSeq(t, v, e - 1))
          IN  IF (t[v] = 34 /\ cq = 0) \/ e = 0 \/ e > Len(t) THEN {}
              ELSE IF t[e] = 125
                THEN (IF e = Len(t) THEN {<<key, val>>} ELSE {})
              ELSE IF t[e] = 44
                THEN LET rest == JSONParseMembers(t, e + 1)
                     IN  IF rest = {} THEN {} ELSE {<<key, val>>} \cup rest
              ELSE {}

\* JSON.parse of a flat object text
JSONParse(t) ==
  IF Len(t) < 2 \/ t[1] # 123 THEN {}
  ELSE JSONParseMembers(t, 2)

\* a configuration as the set of <<property name, value>> a parse would yield
Members(data) == {<<KeyText[f], data[f]>> : f \in DOMAIN data}

----------------------------------------------------------------------------
(* Claims about the component (Spec, SpecH) *)

\* C1: after any sequence of edits the payload and the command are non-empty
\* only if the current raw state validates; while it does not validate both
\* are the empty string.
ShownOnlyWhenValid ==
  LET ok == SafeParse(form).success
  IN  /\ (b64 # <<>> \/ pythonCmd # <<>>) => ok
      /\ ~ok => (b64 = <<>> /\ pythonCmd = <<>>)

\* an edit has left the raw state invalid and both text areas are blank
BlankAfterInvalidEdit ==
  /\ edits > 0
  /\ ~SafeParse(form).success
  /\ b64 = <<>>
  /\ pythonCmd = <<>>

\* text that reads as a decimal number once trimmed: an optional sign, digits,
\* at most one point, at least one digit
IsDecimalText(s) ==
  LET t == Trim(s)
      u == IF t # <<>> /\ t[1] \in {43, 45} THEN Tail(t) ELSE t
  IN  /\ \A i \in 1..Len(u) : IsDigit(u[i]) \/ u[i] = 46
      /\ Cardinality({i \in 1..Len(u) : u[i] = 46}) <= 1
      /\ \E i \in 1..Len(u) : IsDigit(u[i])

HasIssueOn(parsed, f) ==
  \E i \in 1..Len(parsed.issues) : parsed.issues[i].path = f

\* C4: a numeric field whose raw text does not parse as a number makes the
\* validation fail with a violation on that field, and nothing is displayed.
UnparsableRejected ==
  \A f \in NumberFields :
    (form[f].t = "string" /\ ~IsDecimalText(form[f].s))
      => /\ ~SafeParse(form).success
         /\ HasIssueOn(SafeParse(form), f)
         /\ b64 = <<>>
         /\ pythonCmd = <<>>

\* C7: whenever the raw state validates, decoding the displayed payload
\* (base-64, UTF-8, JSON) yields the validated configuration field for field.
PayloadRoundTrip ==
  LET parsed == SafeParse(form)
  IN  parsed.success
        => JSONParse(UTF8Decode(Base64Decode(b64))) = Members(parsed.data)

\* C8: a non-empty command is the connector command line around the displayed
\* payload, and that payload is the non-empty base-64 text of the
\* serialization of the currently validated configuration.
CommandCarriesPayload ==
  pythonCmd # <<>> =>
    LET parsed == SafeParse(form)
    IN  /\ parsed.success
        /\ pythonCmd = txt_cmdPrefix \o b64 \o txt_cmdSuffix
        /\ b64 # <<>>
        /\ \A i \in 1..Len(b64) : IsBase64Char(b64[i])
        /\ UTF8Decode(Base64Decode(b64)) = JSONStringify(parsed.data)

\* C9: what is displayed is a function of the raw state alone: a raw state
\* that was rendered before displays what it displayed then.
SameRawSameDisplay ==
  form \in DOMAIN shown => shown[form] = Display(b64, pythonCmd)

\* C10: an edit sets the raw state at the edited field to the text supplied
\* and leaves every other field as it was; no other step changes the raw state.
EditFrame ==
  [][ IF edits' # edits
      THEN /\ DOMAIN form' = DOMAIN form
           /\ form'[event'.name] = Str(event'.value)
           /\ \A g \in DOMAIN form \ {event'.name} : form'[g] = form[g]
      ELSE form' = form ]_vars

\* a numeric input was cleared: the empty text is still in the raw state as
\* entered (not 0, not the default) and the raw state does not validate
InvalidTextKept ==
  /\ edits = 1
  /\ event = [name |-> "maxOpenPositions", value |-> <<>>]
  /\ form = [InitialForm EXCEPT !["maxOpenPositions"] = Str(<<>>)]
  /\ ~SafeParse(form).success

----------------------------------------------------------------------------
(* Claims about safeParse (SpecV) *)

\* the intervals of the numeric fields as the data model documents them
DeclaredInterval ==
  [ riskPerTradePct     |-> [lo |-> Dec(0, 0), hi |-> Dec(10, 0),     int |-> FALSE],
    maxOpenPositions    |-> [lo |-> Dec(1, 0), hi |-> Dec(20, 0),     int |-> TRUE],
    emaFast             |-> [lo |-> Dec(2, 0), hi |-> Dec(200, 0),    int |-> TRUE],
    emaSlow             |-> [lo |-> Dec(5, 0), hi |-> Dec(400, 0),    int |-> TRUE],
    rsiPeriod           |-> [lo |-> Dec(2, 0), hi |-> Dec(50, 0),     int |-> TRUE],
    atrPeriod           |-> [lo |-> Dec(5, 0), hi |-> Dec(100, 0),    int |-> TRUE],
    atrStopMultiplier   |-> [lo |-> Dec(0, 1), hi |-> Dec(10, 0),     int |-> FALSE],
    takeProfitRMultiple |-> [lo |-> Dec(0, 1), hi |-> Dec(10, 0),     int |-> FALSE],
    trailingStopATR     |-> [lo |-> Dec(0, 0), hi |-> Dec(10, 0),     int |-> FALSE],
    dailyLossLimitPct   |-> [lo |-> Dec(0, 0), hi |-> Dec(50, 0),     int |-> FALSE],
    maxDrawdownPct      |-> [lo |-> Dec(0, 0), hi |-> Dec(90, 0),     int |-> FALSE],
    magicNumber         |-> [lo |-> Dec(1, 0), hi |-> Dec(999999, 0), int |-> TRUE] ]

DeclaredNumeric == DOMAIN DeclaredInterval

DeclaredTimeframes ==
  {Str(txt_M1), Str(txt_M5), Str(txt_M15), Str(txt_M30), Str(txt_H1), Str(txt_H4),
   Str(txt_D1)}

DeclaredLiveTrading == {Str(txt_false), Str(txt_true)}

\* the default configuration as documented
DocumentedDefaults ==
  [ symbols             |-> Str(txt_EURUSD_GBPUSD),
    timeframe           |-> Str(txt_M15),
    riskPerTradePct     |-> Num(Dec(1, 0)),
    maxOpenPositions    |-> Num(Dec(3, 0)),
    emaFast             |-> Num(Dec(50, 0)),
    emaSlow             |-> Num(Dec(200, 0)),
    rsiPeriod           |-> Num(Dec(14, 0)),
    atrPeriod           |-> Num(Dec(14, 0)),
    atrStopMultiplier   |-> Num(Dec(2, 0)),
    takeProfitRMultiple |-> Num(Dec(2, 0)),
    trailingStopATR     |-> Num(Dec(1, 5)),
    dailyLossLimitPct   |-> Num(Dec(5, 0)),
    maxDrawdownPct      |-> Num(Dec(20, 0)),
    liveTrading         |-> Str(txt_false),
    magicNumber         |-> Num(Dec(424242, 0)) ]

Truth(b) == IF b THEN 1 ELSE 0

\* the number of documented constraints of field f that its value in raw
\* breaks (type, whole number, lower bound, upper bound, membership); an
\* absent field breaks none
Broken(raw, f) ==
  IF f \notin DOMAIN raw THEN 0
  ELSE LET v == raw[f]
       IN  CASE f = "symbols"     -> Truth(v.t # "string")
             [] f = "timeframe"   -> Truth(v \notin DeclaredTimeframes)
             [] f = "liveTrading" -> Truth(v \notin DeclaredLiveTrading)
             [] OTHER ->
                  LET n  == ToNumber(v)
                      iv == DeclaredInterval[f]
                  IN  IF n.t = "NaN" THEN 1
                      ELSE IF n.t = "Infinity"
                        THEN Truth(iv.int) + 1
                      ELSE Truth(iv.int /\ n.n % Scale # 0)
                           + Truth(n.n < iv.lo) + Truth(n.n > iv.hi)

Offending(raw) == {f \in Fields : Broken(raw, f) > 0}

IssuesOn(res, f) == {i \in 1..Len(res.issues) : res.issues[i].path = f}

Succeeded == result # Pending /\ result.success
Failed    == result # Pending /\ ~result.success

\* C2: a configuration returned by a successful validation has exactly the 15
\* declared fields; every numeric field is a number inside its closed
\* interval, whole for the integer fields; timeframe and liveTrading are
\* exactly one of their tokens; no undeclared key of the input appears.
ValidatedConfigWellFormed ==
  Succeeded =>
    LET data == result.data
    IN  /\ DOMAIN data = DeclaredNumeric \cup {"symbols", "timeframe", "liveTrading"}
        /\ Cardinality(DOMAIN data) = 15
        /\ (DOMAIN input \ Fields) \cap DOMAIN data = {}
        /\ data["symbols"].t = "string"
        /\ data["timeframe"] \in DeclaredTimeframes
        /\ data["liveTrading"] \in DeclaredLiveTrading
        /\ \A f \in DeclaredNumeric :
             /\ data[f].t = "number"
             /\ DeclaredInterval[f].lo <= data[f].n
             /\ data[f].n <= DeclaredInterval[f].hi
             /\ DeclaredInterval[f].int => data[f].n % Scale = 0

\* a raw mapping with an undeclared key and a number given as text validated
UnknownKeyStripped ==
  /\ Succeeded
  /\ UnknownKey \in DOMAIN input
  /\ UnknownKey \notin DOMAIN result.data
  /\ \E f \in DeclaredNumeric :
       /\ input[f].t = "string"
       /\ result.data[f] = Num(DeclaredInterval[f].hi)
       /\ result.data[f] # DocumentedDefaults[f]

OthersValid(raw, f) == \A g \in Fields \ {f} : Broken(raw, g) = 0

\* C3: with all other fields valid, a numeric field at its minimum or its
\* maximum validates, and one unit below the minimum or above the maximum
\* fails with one range violation, on that field.
RangeBoundaries ==
  result # Pending =>
    \A f \in DeclaredNumeric :
      (f \in DOMAIN input /\ OthersValid(input, f)) =>
        LET n  == ToNumber(input[f])
            iv == DeclaredInterval[f]
        IN  /\ n \in {Num(iv.lo), Num(iv.hi)} => result.success
            /\ n = Num(iv.lo - Scale) =>
                 result = [success |-> FALSE,
                           issues |-> <<Issue(f, "too_small", "minimum")>>]
            /\ n = Num(iv.hi + Scale) =>
                 result = [success |-> FALSE,
                           issues |-> <<Issue(f, "too_big", "maximum")>>]

\* the initial form with magicNumber one unit above its maximum, given as
\* text, was rejected
OneBeyondRejected ==
  /\ Failed
  /\ input = [InitialForm EXCEPT !["magicNumber"] = Str(<<49, 48, 48, 48, 48, 48, 48>>)]
  /\ ToNumber(input["magicNumber"]) = Num(Dec(1000000, 0))
  /\ OthersValid(input, "magicNumber")

\* C5 as claimed: a failure lists exactly one violation for each offending
\* field, k violations for k offending fields, and none for a valid field.
OneViolationPerField ==
  Failed =>
    /\ Len(result.issues) = Cardinality(Offending(input))
    /\ \A f \in Fields :
         Cardinality(IssuesOn(result, f)) = Truth(f \in Offending(input))

\* C5 as amended: validation fails exactly when some field is offending, and
\* the failure lists, for every field, one violation for each constraint its
\* value breaks: at least one for each offending field, none for a valid
\* field, and k in all when each of the k offending values breaks one
\* constraint.
OneViolationPerConstraint ==
  result # Pending =>
    /\ result.success <=> Offending(input) = {}
    /\ ~result.success =>
         /\ \A f \in Fields : Cardinality(IssuesOn(result, f)) = Broken(input, f)
         /\ {result.issues[i].path : i \in 1..Len(result.issues)} = Offending(input)
         /\ (\A f \in Offending(input) : Broken(input, f) = 1)
              => Len(result.issues) = Cardinality(Offending(input))

\* three offending fields, one of them a fractional value below the minimum
\* of an integer field, and more than three violations listed
ThreeOffendingFields ==
  /\ Failed
  /\ Cardinality(Offending(input)) = 3
  /\ \E f \in Offending(input) \cap DeclaredNumeric :
       DeclaredInterval[f].int /\ Broken(input, f) = 2
  /\ Len(result.issues) > 3

\* C6: the empty raw mapping and the form's initial state both validate to the
\* documented default configuration, and every field absent from a raw
\* mapping that validates takes its documented default.
DefaultsFill ==
  result # Pending =>
    /\ input = EmptyRaw => result = [success |-> TRUE, data |-> DocumentedDefaults]
    /\ input = InitialForm => result = [success |-> TRUE, data |-> DocumentedDefaults]
    /\ result.success =>
         \A f \in Fields \ DOMAIN input : result.data[f] = DocumentedDefaults[f]

\* a raw mapping that holds some of the fields only validated
AbsentFieldsDefaulted ==
  /\ Succeeded
  /\ DOMAIN input # {}
  /\ Fields \ DOMAIN input # {}
  /\ \E f \in DOMAIN input : result.data[f] # DocumentedDefaults[f]
  /\ \A f \in Fields \ DOMAIN input : result.data[f] = DocumentedDefaults[f]

====
